---- MODULE Spec2Model ----
(***************************************************************************)
(* Legal-Doc-Analyzer: the Query Service (flask_server/app.py) and the     *)
(* Interactive Assistant (main.py).                                         *)
(*                                                                          *)
(* Texts that the code trims or concatenates (page texts, document text,    *)
(* formatted probabilities) are sequences of one-character strings; texts   *)
(* that the code only compares or copies (questions, answers, prompts,      *)
(* replies) are strings.  A probability p of the top-n file is the integer  *)
(* p * 10000.                                                               *)
(***************************************************************************)
EXTENDS Integers, Sequences, FiniteSets, TLC

(* ------------------------------ bounds --------------------------------- *)

\* pages of an uploaded PDF
MaxPages == 2
\* conversation turns kept in one Interactive Assistant session
MaxMessages == 4

(* ------------------------- program constants --------------------------- *)

\* n_best_size handed to run_prediction
n_best_size == 5
\* range(5): candidates copied from nbest.json into the response
NumCandidates == 5

NoAnswerText == "No answer found in document"

(* ------------------------------ strings -------------------------------- *)

IsSpace(c) == c \in {" ", "\n"}

RECURSIVE lstrip(_)
lstrip(s) ==
    IF s = <<>> THEN <<>>
    ELSE IF IsSpace(Head(s)) THEN lstrip(Tail(s)) ELSE s

RECURSIVE rstrip(_)
rstrip(s) ==
    IF s = <<>> THEN <<>>
    ELSE IF IsSpace(s[Len(s)]) THEN rstrip(SubSeq(s, 1, Len(s) - 1)) ELSE s

\* str.strip()
strip(s) == rstrip(lstrip(s))

\* texts one page can yield; <<>> is the falsy result (None or "")
PageTexts == {<<>>, <<" ">>, <<"a">>}

PdfPages == UNION {[1..n -> PageTexts] : n \in 0..MaxPages}

(* ========================== Query Service ============================== *)

\* app.py 63-66: a page that yields text contributes text + "\n"
RECURSIVE ExtractPdfText(_)
ExtractPdfText(pages) ==
    IF pages = <<>> THEN <<>>
    ELSE (IF Head(pages) # <<>> THEN Head(pages) \o <<"\n">> ELSE <<>>)
         \o ExtractPdfText(Tail(pages))

\* a paragraph taken without trimming
ParagraphUntrimmed(pages) == ExtractPdfText(pages)

\* app.py 70
Paragraph(pages) == strip(ExtractPdfText(pages))

\* TextBlob(text).sentiment.polarity, in hundredths
Polarity(text) ==
    CASE text = "void"  -> -50
      [] text = "valid" -> 40
      [] OTHER          -> 0

\* app.py 32-42
getContractAnalysis(selected_response) ==
    IF selected_response = "" THEN NoAnswerText
    ELSE LET polarity == Polarity(selected_response)
         IN  IF polarity > 0 THEN "Positive"
             ELSE IF polarity < 0 THEN "Negative"
             ELSE "Neutral"

Digit(d) == <<"0", "1", "2", "3", "4", "5", "6", "7", "8", "9">>[d + 1]

RECURSIVE IntStr(_)
IntStr(n) == IF n < 10 THEN <<Digit(n)>> ELSE IntStr(n \div 10) \o <<Digit(n % 10)>>

\* round(p * 100, 1) in tenths of a percent, p in ten-thousandths; ties to even
RoundTenths(p) ==
    LET t == p \div 10
        r == p % 10
    IN  IF r > 5 \/ (r = 5 /\ t % 2 = 1) THEN t + 1 ELSE t

\* a formatting that truncates instead of rounding
FormatTruncated(p) ==
    LET t == p \div 10
    IN  IntStr(t \div 10) \o <<".">> \o <<Digit(t % 10)>> \o <<"%">>

\* app.py 98: f"{round(p * 100, 1)}%"
FormatProbability(p) ==
    LET t == RoundTenths(p)
    IN  IntStr(t \div 10) \o <<".">> \o <<Digit(t % 10)>> \o <<"%">>

\* app.py 96-100
Candidate(entry) ==
    [answer      |-> entry.text,
     probability |-> FormatProbability(entry.probability),
     analyse     |-> getContractAnalysis(entry.text)]

\* a loop that walks the file from its last entry to its first
FormatAnswersReversed(data) ==
    [i \in 1..NumCandidates |-> Candidate(data[NumCandidates + 1 - i])]

\* app.py 95-100: for i in range(5): answers.append(...)
FormatAnswers(data) == [i \in 1..NumCandidates |-> Candidate(data[i])]

\* app.py 86-90
NoAnswerCandidate ==
    [answer |-> NoAnswerText, probability |-> <<>>, analyse |-> "Neutral"]

\* a branch that always opens nbest.json
NeedsNbestAlways(top) == TRUE

\* app.py 85, 91: the else branch opens nbest.json
NeedsNbest(top) == top # ""

(* inputs *)

Questions == {"", "Is this agreement valid?"}

Files ==
    {[present |-> FALSE, parses |-> FALSE, pages |-> <<>>],
     [present |-> TRUE,  parses |-> FALSE, pages |-> <<>>]}
    \cup {[present |-> TRUE, parses |-> TRUE, pages |-> p] : p \in PdfPages}

\* entries the QA model can persist
CandPool ==
    << [text |-> "void",  probability |-> 8700],
       [text |-> "valid", probability |-> 346],
       [text |-> "",      probability |-> 4],
       [text |-> "party", probability |-> 10000] >>

\* the top-n lists run_prediction persists: n_best_size entries each
NBestLists ==
    {[i \in 1..n_best_size |-> CandPool[((k + (i - 1) * s) % Len(CandPool)) + 1]] :
        k \in 0..(Len(CandPool) - 1), s \in {1}}

TopAnswers == {"", "void"}

\* the two requests whose steps may interleave
Requests == {"A", "B"}

VARIABLES
    threaded,      \* app.run: requests served concurrently or one at a time
    nbest,         \* contents of nbest.json (<<>>: not written yet)
    req,           \* per request: inputs, program position, locals, response
    uploaded_file, \* the file uploader widget
    doc_text,      \* st.session_state.doc_text
    messages,      \* st.session_state.messages
    last           \* the latest script run: what triggered it and what it did

qvars == <<threaded, nbest, req>>

avars == <<uploaded_file, doc_text, messages, last>>

vars == <<threaded, nbest, req, uploaded_file, doc_text, messages, last>>

NewRequest ==
    [pc |-> "new", file |-> [present |-> FALSE, parses |-> FALSE, pages |-> <<>>],
     question |-> "", status |-> 0, invoked |-> FALSE, returned |-> FALSE,
     opened |-> FALSE,
     top |-> "", own |-> <<>>, data |-> <<>>, answers |-> <<>>]

QInit ==
    /\ threaded \in BOOLEAN
    /\ nbest = <<>>
    /\ req = [r \in Requests |-> NewRequest]

InFlight(r) == req[r].pc \in {"validated", "predicted"}

\* one request at a time unless the server is threaded
MayStep(r) == threaded \/ \A o \in Requests \ {r} : ~InFlight(o)

Finish(r, code, fields) ==
    req' = [req EXCEPT ![r] = [fields EXCEPT !.pc = "done", !.status = code]]

\* requests are named in their order of arrival
ArrivesNext(r) == r = "A" \/ req["A"].pc # "new"

\* app.py 51-73
Receive(r) ==
    /\ req[r].pc = "new"
    /\ ArrivesNext(r)
    /\ MayStep(r)
    /\ \E f \in Files, q \in Questions :
         LET in == [req[r] EXCEPT !.file = f, !.question = q]
         IN  IF ~f.present THEN Finish(r, 400, in)
             ELSE IF ~f.parses THEN Finish(r, 500, in)
             ELSE IF Paragraph(f.pages) = <<>> \/ q = "" THEN Finish(r, 400, in)
             ELSE req' = [req EXCEPT ![r] = [in EXCEPT !.pc = "validated"]]
    /\ UNCHANGED <<threaded, nbest, avars>>

\* app.py 76-90: run_prediction persists the top-n list and returns the top answer
RunPrediction(r) ==
    /\ req[r].pc = "validated"
    /\ MayStep(r)
    /\ \E top \in TopAnswers, list \in NBestLists :
         LET got == [req[r] EXCEPT !.invoked = TRUE, !.returned = TRUE,
                                   !.top = top, !.own = list]
         IN  /\ nbest' = list
             /\ IF NeedsNbest(top)
                THEN req' = [req EXCEPT ![r] = [got EXCEPT !.pc = "predicted"]]
                ELSE Finish(r, 200, [got EXCEPT !.answers = <<NoAnswerCandidate>>])
    /\ UNCHANGED <<threaded, avars>>

\* app.py 76-81: run_prediction raises; nothing catches it
PredictionFails(r) ==
    /\ req[r].pc = "validated"
    /\ MayStep(r)
    /\ Finish(r, 500, [req[r] EXCEPT !.invoked = TRUE])
    /\ UNCHANGED <<threaded, nbest, avars>>

\* app.py 91-102
ReadNbest(r) ==
    /\ req[r].pc = "predicted"
    /\ MayStep(r)
    /\ Finish(r, 200, [req[r] EXCEPT !.opened = TRUE, !.data = nbest,
                                      !.answers = FormatAnswers(nbest)])
    /\ UNCHANGED <<threaded, nbest, avars>>

QNext ==
    \/ \E r \in Requests : Receive(r)
    \/ \E r \in Requests : RunPrediction(r)
    \/ \E r \in Requests : PredictionFails(r)
    \/ \E r \in Requests : ReadNbest(r)

(* ======================= Interactive Assistant ========================= *)

SummaryPrefix == "**Document Summary:**\n"

\* main.py 169
ImagePlaceholder == <<"I", "m", "a", "g", "e", " ", "d", "o", "c", "u", "m", "e", "n", "t",
                      " ", "u", "p", "l", "o", "a", "d", "e", "d">>

\* main.py 160: "".join(page.extract_text() + "\n" for page in reader.pages)
RECURSIVE JoinPages(_)
JoinPages(pages) ==
    IF pages = <<>> THEN <<>>
    ELSE Head(pages) \o <<"\n">> \o JoinPages(Tail(pages))

NoUpload == [present |-> FALSE, type |-> "", parses |-> FALSE, pages |-> <<>>]

\* what the file uploader can hold: PDFs, images, and files the libraries reject
Uploads ==
    {[present |-> TRUE, type |-> "application/pdf", parses |-> TRUE, pages |-> p] :
        p \in PdfPages}
    \cup {[present |-> TRUE, type |-> t, parses |-> FALSE, pages |-> <<>>] :
            t \in {"application/pdf", "image/png"}}
    \cup {[present |-> TRUE, type |-> t, parses |-> TRUE, pages |-> <<>>] :
            t \in {"image/png", "image/jpeg"}}

\* main.py 145-170: the document text after the upload block of one script run
DocTextAfterUpload(file, old) ==
    IF ~file.present THEN old
    ELSE IF file.type = "application/pdf" THEN strip(JoinPages(file.pages))
    ELSE ImagePlaceholder

\* main.py 145-175 ran to its end: PdfReader / Image.open did not raise
UploadBlockPasses(file) == ~file.present \/ file.parses

\* a transcript that keeps the earlier turns and adds the summary
SummaryAppended(messages_, summary) ==
    Append(messages_, [role |-> "assistant", content |-> <<SummaryPrefix, summary>>])

\* main.py 205-207
SummaryTranscript(messages_, summary) ==
    IF summary # ""
    THEN <<[role |-> "assistant", content |-> <<SummaryPrefix, summary>>]>>
    ELSE messages_

\* a guard that lets every submission through
ChatAcceptedAlways(text) == TRUE

\* main.py 220: the else branch of `if not st.session_state.doc_text`
ChatAccepted(text) == text # <<>>

\* main.py 224
UserTurn(prompt) == [role |-> "user", content |-> <<prompt>>]

\* main.py 245
AssistantTurn(ai_response) == [role |-> "assistant", content |-> <<ai_response>>]

\* an assistant turn recorded whatever the collaborator returned
WithReplyUnconditional(messages_, ai_response) == Append(messages_, AssistantTurn(ai_response))

\* main.py 242-245
WithReply(messages_, ai_response) ==
    IF ai_response # "" THEN Append(messages_, AssistantTurn(ai_response)) ELSE messages_

\* main.py 95-104: the system message is split off, assistant becomes model
generate_chat_history(full_messages) ==
    LET messages_for_history ==
            IF full_messages # <<>> /\ full_messages[1].role = "system"
            THEN Tail(full_messages) ELSE full_messages
    IN  [i \in 1..Len(messages_for_history) |->
            [role  |-> IF messages_for_history[i].role = "assistant" THEN "model" ELSE "user",
             parts |-> messages_for_history[i].content]]

SystemTurn == [role |-> "system", content |-> <<"You are a helpful legal AI assistant.">>]

\* main.py 238: built from the transcript after the user turn was appended
ApiMessages(before, after) == <<SystemTurn>> \o after

Prompts == {"What are the risks?"}
\* what generate_completion / generate_chat_response hand back: "" is no text
Summaries == {"", "summary"}
Replies == {"", "reply"}

NoRun ==
    [op |-> "none", before |-> <<>>, prompt |-> "", called |-> FALSE, warned |-> FALSE,
     raised |-> FALSE, history |-> <<>>, reply |-> ""]

\* main.py 63-66
AInit ==
    /\ uploaded_file = NoUpload
    /\ doc_text = <<>>
    /\ messages = <<>>
    /\ last = NoRun

\* main.py 139-175: a file is chosen and the script runs
Upload(f) ==
    /\ f # uploaded_file
    /\ uploaded_file' = f
    /\ doc_text' = IF UploadBlockPasses(f) THEN DocTextAfterUpload(f, doc_text) ELSE doc_text
    /\ last' = [NoRun EXCEPT !.op = "upload", !.before = messages,
                             !.raised = ~UploadBlockPasses(f)]
    /\ UNCHANGED <<messages, qvars>>

\* main.py 145: the file is removed; the session keeps its text and transcript
RemoveFile ==
    /\ uploaded_file.present
    /\ uploaded_file' = NoUpload
    /\ last' = [NoRun EXCEPT !.op = "remove", !.before = messages]
    /\ UNCHANGED <<doc_text, messages, qvars>>

\* main.py 178-208: the button exists only when the upload block passed
GenerateSummary ==
    /\ uploaded_file.present
    /\ UploadBlockPasses(uploaded_file)
    /\ doc_text' = DocTextAfterUpload(uploaded_file, doc_text)
    /\ \E raised \in BOOLEAN, s \in Summaries :
         /\ raised => s = ""
         /\ messages' = IF raised THEN messages ELSE SummaryTranscript(messages, s)
         /\ last' = [NoRun EXCEPT !.op = "summary", !.before = messages, !.called = TRUE,
                                  !.raised = raised, !.reply = s]
    /\ UNCHANGED <<uploaded_file, qvars>>

\* main.py 219-245: the chat input exists only when the script reached it
Chat ==
    /\ UploadBlockPasses(uploaded_file)
    /\ Len(messages) + 2 <= MaxMessages
    /\ doc_text' = DocTextAfterUpload(uploaded_file, doc_text)
    /\ \E prompt \in Prompts, raised \in BOOLEAN, r \in Replies :
         /\ raised => r = ""
         /\ IF ~ChatAccepted(doc_text')
            THEN /\ r = "" /\ ~raised
                 /\ messages' = messages
                 /\ last' = [NoRun EXCEPT !.op = "chat", !.before = messages,
                                          !.prompt = prompt, !.warned = TRUE]
            ELSE LET appended == Append(messages, UserTurn(prompt))
                 IN  /\ messages' = IF raised THEN appended ELSE WithReply(appended, r)
                     /\ last' = [NoRun EXCEPT !.op = "chat", !.before = messages,
                                   !.prompt = prompt, !.called = TRUE, !.raised = raised,
                                   !.history = generate_chat_history(ApiMessages(messages, appended)),
                                   !.reply = r]
    /\ UNCHANGED <<uploaded_file, qvars>>

ANext ==
    \/ \E f \in Uploads : Upload(f)
    \/ RemoveFile
    \/ GenerateSummary
    \/ Chat

(* ========================== specifications ============================= *)

Init == QInit /\ AInit

SpecQuery == Init /\ [][QNext]_vars

\* the assistant is a process of its own; the Query Service stays as it started
InitAssistant == Init /\ threaded = FALSE

SpecAssistant == InitAssistant /\ [][ANext]_vars

(* ============================== claims ================================= *)

Done(r) == req[r].pc = "done"

Labels == {"Positive", "Negative", "Neutral"}

DigitValue(c) == CHOOSE d \in 0..9 : Digit(d) = c

RECURSIVE ParseInt(_)
ParseInt(s) ==
    IF s = <<>> THEN 0 ELSE 10 * ParseInt(SubSeq(s, 1, Len(s) - 1)) + DigitValue(s[Len(s)])

\* str reads "<digits>.<digit>%" and is the tenth of a percent nearest to p
ShowsProbability(str, p) ==
    LET n == Len(str)
    IN  /\ n >= 4
        /\ str[n] = "%"
        /\ str[n - 2] = "."
        /\ \A i \in (1..(n - 3)) \cup {n - 1} : str[i] \in {Digit(d) : d \in 0..9}
        /\ LET shown == 100 * ParseInt(SubSeq(str, 1, n - 3)) + 10 * DigitValue(str[n - 1])
           IN  shown - p \in (-5)..5

\* the candidates are the first five entries of list, in order, formatted
CarriesList(answers, list) ==
    /\ Len(answers) = 5
    /\ Len(list) >= 5
    /\ \A i \in 1..5 :
         /\ answers[i].answer = list[i].text
         /\ ShowsProbability(answers[i].probability, list[i].probability)

\* C1: a request whose file part is missing or whose question is empty ends in
\* HTTP 400 without run_prediction being invoked, whatever the uploaded bytes are.
C1_MissingInputIs400 ==
    \A r \in Requests :
        (Done(r) /\ (~req[r].file.present \/ req[r].question = ""))
            => (req[r].status = 400 /\ ~req[r].invoked)

\* C3: when run_prediction returns a non-empty top answer the response is a success
\* with exactly 5 candidates, the i-th carrying the text and the formatted
\* probability of the i-th entry of the top-n list read from nbest.json.
C3_FiveCandidatesInOrder ==
    \A r \in Requests :
        (Done(r) /\ req[r].returned /\ req[r].top # "")
            => /\ req[r].status = 200
               /\ req[r].opened
               /\ req[r].data \in NBestLists
               /\ CarriesList(req[r].answers, req[r].data)

C3_Witness ==
    \E r \in Requests :
        /\ Done(r) /\ req[r].returned /\ req[r].top # "" /\ req[r].status = 200
        /\ req[r].data[1] # req[r].data[2]
        /\ req[r].answers[2].probability = <<"3", ".", "5", "%">>

\* C4: every candidate of a successful response has analyse in {Positive, Negative,
\* Neutral}, decided by the sign of the polarity of its text, the empty text included.
C4_AnalyseIsALabel ==
    \A r \in Requests :
        (Done(r) /\ req[r].status = 200)
            => \A i \in DOMAIN req[r].answers :
                 LET c == req[r].answers[i]
                 IN  /\ c.analyse \in Labels
                     /\ c.answer # NoAnswerText =>
                          /\ (c.analyse = "Positive") = (Polarity(c.answer) > 0)
                          /\ (c.analyse = "Negative") = (Polarity(c.answer) < 0)

\* C5: when run_prediction returns the empty top answer the response is exactly the
\* one sentinel candidate and nbest.json is not opened during the request.
C5_EmptyTopAnswerIsSentinel ==
    \A r \in Requests :
        (Done(r) /\ req[r].returned /\ req[r].top = "")
            => /\ req[r].status = 200
               /\ req[r].answers = <<[answer |-> "No answer found in document",
                                      probability |-> <<>>, analyse |-> "Neutral"]>>
               /\ ~req[r].opened

C5_Witness ==
    \E r \in Requests :
        /\ Done(r) /\ req[r].returned /\ req[r].top = "" /\ Len(req[r].answers) = 1
        /\ nbest # <<>>

\* no page of the document yields anything but whitespace
AllBlank(pages) == \A i \in DOMAIN pages : \A j \in DOMAIN pages[i] : IsSpace(pages[i][j])

\* C8: a file that parses but whose text is empty after trimming ends in HTTP 400
\* without run_prediction being invoked, whatever the question is.
C8_EmptyTextIs400 ==
    \A r \in Requests :
        (Done(r) /\ req[r].file.present /\ req[r].file.parses /\ AllBlank(req[r].file.pages))
            => (req[r].status = 400 /\ ~req[r].invoked)

C8_Witness ==
    \E r \in Requests :
        /\ Done(r) /\ req[r].file.present /\ req[r].file.parses
        /\ \E i \in DOMAIN req[r].file.pages : req[r].file.pages[i] = <<" ">>
        /\ AllBlank(req[r].file.pages)
        /\ req[r].question # ""
        /\ req[r].status = 400

\* C9: served one at a time, every request with a non-empty top answer returns the
\* candidates its own run_prediction call persisted; served concurrently, a request
\* can return the candidates another request's call persisted (the witness).
C9_SerialRequestsReadTheirOwnList ==
    ~threaded =>
        \A r \in Requests :
            (Done(r) /\ req[r].returned /\ req[r].top # "")
                => (req[r].data = req[r].own /\ CarriesList(req[r].answers, req[r].own))

C9_Witness ==
    /\ threaded
    /\ \E a, b \in Requests :
         /\ a # b
         /\ Done(a) /\ req[a].returned /\ req[a].top # "" /\ req[a].status = 200
         /\ req[b].returned
         /\ req[a].data = req[b].own
         /\ req[a].own[1].text # req[b].own[1].text
         /\ req[a].answers[1].answer = req[b].own[1].text

IsSummaryTurn(m) ==
    /\ m.role = "assistant"
    /\ Len(m.content) = 2
    /\ m.content[1] = "**Document Summary:**\n"

\* C2: whenever the transcript is non-empty its first entry is the generated summary.
C2_FirstTurnIsSummary == messages # <<>> => IsSummaryTurn(messages[1])

\* C6: a chat submission made while the document text is empty is rejected with a
\* warning: the transcript is unchanged and the chat collaborator is not called.
C6_ChatWithoutDocumentRejected ==
    (last.op = "chat" /\ doc_text = <<>>)
        => (messages = last.before /\ ~last.called /\ last.warned)

C6_Witness ==
    /\ last.op = "chat" /\ doc_text = <<>>
    /\ uploaded_file.present /\ uploaded_file.type = "application/pdf"
    /\ Len(uploaded_file.pages) > 0
    /\ last.warned

\* C7: Generate Summary with a non-empty returned text leaves exactly one transcript
\* entry, the assistant turn holding the summary; with no text it leaves the
\* transcript as it was.
C7_SummaryReplacesTranscript ==
    last.op = "summary"
        => /\ last.reply # "" =>
                 /\ Len(messages) = 1
                 /\ IsSummaryTurn(messages[1])
                 /\ messages[1].content[2] = last.reply
           /\ last.reply = "" => messages = last.before

C7_Witness ==
    /\ last.op = "summary" /\ last.reply # ""
    /\ Len(last.before) >= 2
    /\ Len(messages) = 1

IsUserTurn(m, prompt) == m.role = "user" /\ m.content = <<prompt>>

\* C10: a chat submission with non-empty document text appends the user turn before
\* the chat collaborator is called and the assistant turn only on a non-empty reply:
\* the transcript grows by [user, assistant] or, with no text or a failure, by [user].
C10_ChatGrowth ==
    (last.op = "chat" /\ doc_text # <<>>)
        => LET n == Len(last.before)
           IN  /\ last.called
               /\ Len(last.history) = n + 1
               /\ last.history[n + 1] = [role |-> "user", parts |-> <<last.prompt>>]
               /\ Len(messages) = n + (IF last.reply # "" THEN 2 ELSE 1)
               /\ SubSeq(messages, 1, n) = last.before
               /\ IsUserTurn(messages[n + 1], last.prompt)
               /\ last.reply # "" =>
                    messages[n + 2] = [role |-> "assistant", content |-> <<last.reply>>]

\* two consecutive user turns, the first left unanswered
C10_Witness ==
    /\ last.op = "chat" /\ doc_text # <<>>
    /\ \E i \in 1..(Len(messages) - 1) :
         messages[i].role = "user" /\ messages[i + 1].role = "user"

====
